---- MODULE Spec2Model ----
(***************************************************************************)
(* Model of convert_to_docx_pdf.py: the two line-by-line Markdown          *)
(* renderers (convert_to_docx, convert_to_pdf) and the batch driver main.  *)
(* A string is a sequence of one-character strings.                        *)
(***************************************************************************)
EXTENDS Integers, Sequences, FiniteSets, TLC

VARIABLES idx, pc, text, lines, li, doc, story,
          docxLog, pdfLog, pdfRetried, readRes, docxRes, pdfRes

vars == <<idx, pc, text, lines, li, doc, story,
          docxLog, pdfLog, pdfRetried, readRes, docxRes, pdfRes>>

(* ------------------------------ bounds --------------------------------- *)
\* number of entries of files_to_convert that the model runs through
NFiles == 2
\* longest line of the exhaustive per-line inputs
MaxLen == 4
\* most lines in a text returned by read_markdown_file
MaxLines == 2
\* most leading hashes in the heading-shaped per-line inputs
MaxHashes == 5

(* --------------------------- string helpers ---------------------------- *)
NL == "\n"

IsSpace(c) == c \in {" ", "\t", NL}

IsDigit(c) == c \in {"0", "1", "2", "3", "4", "5", "6", "7", "8", "9"}

\* str.startswith
StartsWith(s, p) == Len(s) >= Len(p) /\ SubSeq(s, 1, Len(p)) = p

\* s[n:]
Drop(s, n) == SubSeq(s, n + 1, Len(s))

\* v, evaluated once and handed to F
Bind(v, F(_)) == CHOOSE r \in {F(x) : x \in {v}} : TRUE

\* str.find: least position >= from where p occurs in s, 0 when there is none
Find(s, p, from) ==
  Bind({i \in from..(Len(s) - Len(p) + 1) : SubSeq(s, i, i + Len(p) - 1) = p}, LAMBDA hits :
  IF hits = {} THEN 0 ELSE CHOOSE i \in hits : \A j \in hits : i <= j)

\* number of leading whitespace characters of s
RECURSIVE SpaceRun(_)
SpaceRun(s) == IF s # <<>> /\ IsSpace(Head(s)) THEN 1 + SpaceRun(Tail(s)) ELSE 0

\* number of leading digits of s
RECURSIVE DigitRun(_)
DigitRun(s) == IF s # <<>> /\ IsDigit(Head(s)) THEN 1 + DigitRun(Tail(s)) ELSE 0

\* str.strip(): from the first to the last character that is not whitespace
Strip(s) ==
  Bind({k \in 1..Len(s) : ~IsSpace(s[k])}, LAMBDA keep :
  IF keep = {} THEN <<>>
  ELSE SubSeq(s, CHOOSE k \in keep : \A j \in keep : k <= j,
                 CHOOSE k \in keep : \A j \in keep : k >= j))

\* the pieces of s[from:] between occurrences of the character sep
RECURSIVE SplitFrom(_, _, _)
SplitFrom(s, sep, from) ==
  Bind(Find(s, <<sep>>, from), LAMBDA i :
  IF i = 0 THEN <<SubSeq(s, from, Len(s))>>
  ELSE <<SubSeq(s, from, i - 1)>> \o SplitFrom(s, sep, i + 1))

\* str.split(sep) for a one-character sep: always at least one piece
SplitOn(s, sep) == SplitFrom(s, sep, 1)

\* sep.join(parts)
RECURSIVE Join(_, _)
Join(parts, sep) ==
  IF parts = <<>> THEN <<>>
  ELSE IF Len(parts) = 1 THEN parts[1]
  ELSE parts[1] \o sep \o Join(Tail(parts), sep)

\* c * n
RECURSIVE Repeat(_, _)
Repeat(c, n) == IF n = 0 THEN <<>> ELSE <<c>> \o Repeat(c, n - 1)

(* ----------------------- regular-expression steps ---------------------- *)
\* re.sub(open (.*?) close, ro \1 rc, s) on s[from:]: leftmost, non-greedy,
\* non-overlapping matches. With keep = FALSE the group is dropped, as in the
\* tag-stripping re.sub.
RECURSIVE SubSpanFrom(_, _, _, _, _, _, _)
SubSpanFrom(s, from, open, close, ro, rc, keep) ==
  Bind(Find(s, open, from), LAMBDA i :
  Bind(IF i = 0 THEN 0 ELSE Find(s, close, i + Len(open)), LAMBDA j :
  IF j = 0 THEN SubSeq(s, from, Len(s))
  ELSE SubSeq(s, from, i - 1) \o ro
       \o (IF keep THEN SubSeq(s, i + Len(open), j - 1) ELSE <<>>) \o rc
       \o SubSpanFrom(s, j + Len(close), open, close, ro, rc, keep)))

SubSpan(s, open, close, ro, rc, keep) == SubSpanFrom(s, 1, open, close, ro, rc, keep)

\* re.sub of the link pattern [X](Y) by ro X rc, on s[from:]
RECURSIVE SubLinkFrom(_, _, _, _)
SubLinkFrom(s, from, ro, rc) ==
  Bind(Find(s, <<"[">>, from), LAMBDA i :
  Bind(IF i = 0 THEN 0 ELSE Find(s, <<"]", "(">>, i + 1), LAMBDA j :
  Bind(IF j = 0 THEN 0 ELSE Find(s, <<")">>, j + 2), LAMBDA k :
  IF k = 0 THEN SubSeq(s, from, Len(s))
  ELSE SubSeq(s, from, i - 1) \o ro \o SubSeq(s, i + 1, j - 1) \o rc
       \o SubLinkFrom(s, k + 1, ro, rc))))

SubLink(s, ro, rc) == SubLinkFrom(s, 1, ro, rc)

Stars2 == <<"*", "*">>
Star1 == <<"*">>
\* the grave accent (code-span and fence character); TLA+ has no string literal for it
GRAVE == "grave"

\* U+2500, the divider character of the DOCX rule line
BOXDASH == "U+2500"

\* U+2022, the bullet glyph of the PDF bullet line
BULLET == "U+2022"

Tick == <<GRAVE>>

\* the four substitutions of the DOCX paragraph branch
PlainFormat(s) ==
  Bind(SubSpan(s, Stars2, Stars2, <<>>, <<>>, TRUE), LAMBDA b :
  Bind(SubSpan(b, Star1, Star1, <<>>, <<>>, TRUE), LAMBDA i :
  Bind(SubSpan(i, Tick, Tick, <<>>, <<>>, TRUE), LAMBDA c :
  SubLink(c, <<>>, <<>>))))

BOpen == <<"<", "b", ">">>
BClose == <<"<", "/", "b", ">">>
IOpen == <<"<", "i", ">">>
IClose == <<"<", "/", "i", ">">>
UOpen == <<"<", "u", ">">>
UClose == <<"<", "/", "u", ">">>
FontOpen == <<"<", "f", "o", "n", "t", " ", "f", "a", "c", "e", "=", "\"",
              "C", "o", "u", "r", "i", "e", "r", "\"", ">">>
FontClose == <<"<", "/", "f", "o", "n", "t", ">">>

\* the PDF paragraph branch with the bold substitution left out
MarkupFormatNoBold(s) ==
  Bind(SubSpan(s, Star1, Star1, IOpen, IClose, TRUE), LAMBDA i :
  Bind(SubSpan(i, Tick, Tick, FontOpen, FontClose, TRUE), LAMBDA c :
  SubLink(c, UOpen, UClose)))

\* the four substitutions of the PDF paragraph branch
MarkupFormat(s) ==
  Bind(SubSpan(s, Stars2, Stars2, BOpen, BClose, TRUE), LAMBDA b :
  Bind(SubSpan(b, Star1, Star1, IOpen, IClose, TRUE), LAMBDA i :
  Bind(SubSpan(i, Tick, Tick, FontOpen, FontClose, TRUE), LAMBDA c :
  SubLink(c, UOpen, UClose))))

\* re.sub of the pattern <.*?> by the empty string
StripTags(s) == Bind(s, LAMBDA t : SubSpan(t, <<"<">>, <<">">>, <<>>, <<>>, FALSE))

\* re.match of ^\d+\. on line
NumberedMatch(line) ==
  Bind(DigitRun(line), LAMBDA n : n >= 1 /\ Len(line) > n /\ line[n + 1] = ".")

\* re.sub of ^\d+\.\s* by the empty string, for a line that NumberedMatch accepts
NumberedText(line) ==
  Bind(Drop(line, DigitRun(line) + 1), LAMBDA rest : Drop(rest, SpaceRun(rest)))

\* [cell.strip() for cell in line.split(bar)[1:-1]]
TableCells(line) ==
  Bind(SplitOn(line, "|"), LAMBDA parts :
  Bind(SubSeq(parts, 2, Len(parts) - 1), LAMBDA inner :
  [k \in 1..Len(inner) |-> Bind(inner[k], LAMBDA cell : Strip(cell))]))

(* ------------------------- document elements --------------------------- *)
\* doc.add_heading(text, level=level)
AddHeading(t, level) == [kind |-> "heading", level |-> level, style |-> "Heading", text |-> t]

\* doc.add_paragraph(text, style=style); style "Normal" when none is given
AddParagraph(t, style) == [kind |-> "paragraph", level |-> 0, style |-> style, text |-> t]

\* reportlab Paragraph(text, style); style is the name of the style variable
Paragraph(t, style) == [kind |-> "Paragraph", text |-> t, style |-> style, height |-> 0]

\* reportlab Spacer(1, h*inch), the height kept in tenths of an inch
Spacer(tenths) == [kind |-> "Spacer", text |-> <<>>, style |-> "", height |-> tenths]

\* width of the divider drawn for a rule line
RuleWidth == 80

(* -------------------- convert_to_docx: one loop pass ------------------- *)
Hash1 == <<"#", " ">>
Hash2 == <<"#", "#", " ">>
\* a three-hash prefix test that forgets the space
Hash3NoSpace == <<"#", "#", "#">>

Hash3 == <<"#", "#", "#", " ">>
Hash4 == <<"#", "#", "#", "#", " ">>
Fence == <<GRAVE, GRAVE, GRAVE>>
Dashes == <<"-", "-", "-">>
Stars3 == <<"*", "*", "*">>

\* the branch of the if/elif chain that a stripped line takes
DocxBranch(line) ==
  IF line = <<>> THEN "blank"
  ELSE IF StartsWith(line, Hash1) THEN "h1"
  ELSE IF StartsWith(line, Hash2) THEN "h2"
  ELSE IF StartsWith(line, Hash3) THEN "h3"
  ELSE IF StartsWith(line, Hash4) THEN "h4"
  ELSE IF StartsWith(line, <<"|">>) THEN "table"
  ELSE IF StartsWith(line, <<"-", " ">>) \/ StartsWith(line, <<"*", " ">>) THEN "bullet"
  ELSE IF NumberedMatch(line) THEN "numbered"
  ELSE IF StartsWith(line, Fence) THEN "fence"
  ELSE IF StartsWith(line, Dashes) \/ StartsWith(line, Stars3) THEN "rule"
  ELSE "paragraph"

\* a bullet branch that strips the inline markers, as the paragraph branch does
DocxBulletTextFormatted(line) == PlainFormat(Drop(line, 2))

\* text of the list item appended for a bullet line
DocxBulletText(line) == Drop(line, 2)

\* text of the list item appended for a numbered line
DocxNumberedText(line) == NumberedText(line)

\* text of the paragraph appended for a table line
DocxTableText(line) == Bind(TableCells(line), LAMBDA cells : Join(cells, <<" ", "|", " ">>))

\* the elements one pass of the loop appends to the document
DocxElems(line) ==
  Bind(DocxBranch(line), LAMBDA br :
  CASE br = "blank" -> <<>>
    [] br = "h1" -> <<AddHeading(Drop(line, 2), 1)>>
    [] br = "h2" -> <<AddHeading(Drop(line, 3), 2)>>
    [] br = "h3" -> <<AddHeading(Drop(line, 4), 3)>>
    [] br = "h4" -> <<AddHeading(Drop(line, 5), 4)>>
    [] br = "table" -> <<AddParagraph(DocxTableText(line), "Normal")>>
    [] br = "bullet" -> <<AddParagraph(DocxBulletText(line), "List Bullet")>>
    [] br = "numbered" -> <<AddParagraph(DocxNumberedText(line), "List Number")>>
    [] br = "fence" -> <<>>
    [] br = "rule" -> <<AddParagraph(Repeat(BOXDASH, RuleWidth), "Normal")>>
    [] OTHER -> Bind(PlainFormat(line), LAMBDA t :
                  IF t # <<>> THEN <<AddParagraph(t, "Normal")>> ELSE <<>>))

(* -------------------- convert_to_pdf: one loop pass -------------------- *)
\* a separator test that forgets the leading bar
PdfIsTableSepAnywhere(line) == Find(line, <<"-">>, 1) # 0

\* the test for a table header-separator line
PdfIsTableSep(line) == StartsWith(line, <<"|">>) /\ Find(line, <<"-">>, 1) # 0

\* the branch of the if/elif chain that a stripped line takes
PdfBranch(line) ==
  IF line = <<>> THEN "blank"
  ELSE IF StartsWith(line, Hash1) THEN "h1"
  ELSE IF StartsWith(line, Hash2) THEN "h2"
  ELSE IF StartsWith(line, Hash3) \/ StartsWith(line, Hash4) THEN "h34"
  ELSE IF StartsWith(line, Dashes) \/ StartsWith(line, Stars3) THEN "rule"
  ELSE IF StartsWith(line, Fence) THEN "fence"
  ELSE IF PdfIsTableSep(line) THEN "table_sep"
  ELSE IF StartsWith(line, <<"|">>) THEN "table"
  ELSE IF StartsWith(line, <<"-", " ">>) \/ StartsWith(line, <<"*", " ">>) THEN "bullet"
  ELSE IF NumberedMatch(line) THEN "numbered"
  ELSE "paragraph"

\* line.split(" ", 1)[1] if " " in line else ""
AfterFirstSpace(line) ==
  Bind(Find(line, <<" ">>, 1), LAMBDA i : IF i = 0 THEN <<>> ELSE Drop(line, i))

\* a bullet branch that applies the inline markup, as the paragraph branch does
PdfBulletTextFormatted(line) == <<BULLET, " ">> \o MarkupFormat(Drop(line, 2))

\* text of the paragraph appended for a bullet line
PdfBulletText(line) == <<BULLET, " ">> \o Drop(line, 2)

\* text of the paragraph appended for a numbered line
PdfNumberedText(line) == line

\* the flowables one pass of the loop appends to the story when every
\* constructor succeeds (retry = FALSE), or when the first Paragraph of the
\* paragraph branch raised and the tag-stripped retry succeeded (retry = TRUE)
PdfFlowables(line, retry) ==
  Bind(PdfBranch(line), LAMBDA br :
  CASE br = "blank" -> <<Spacer(2)>>
    [] br = "h1" -> <<Paragraph(Drop(line, 2), "chinese_heading1"), Spacer(3)>>
    [] br = "h2" -> <<Paragraph(Drop(line, 3), "chinese_heading2"), Spacer(2)>>
    [] br = "h34" -> <<Paragraph(BOpen \o AfterFirstSpace(line) \o BClose, "chinese_style"),
                       Spacer(1)>>
    [] br = "rule" -> <<Spacer(1), Paragraph(Repeat("_", RuleWidth), "Normal"), Spacer(1)>>
    [] br = "fence" -> <<>>
    [] br = "table_sep" -> <<>>
    [] br = "table" -> <<>>
    [] br = "bullet" -> <<Paragraph(PdfBulletText(line), "chinese_style")>>
    [] br = "numbered" -> <<Paragraph(PdfNumberedText(line), "chinese_style")>>
    [] OTHER -> Bind(MarkupFormat(line), LAMBDA t :
                  IF t = <<>> THEN <<>>
                  ELSE IF retry THEN <<Paragraph(StripTags(t), "chinese_style")>>
                  ELSE <<Paragraph(t, "chinese_style")>>))

\* whether the pass has a try/except around its Paragraph constructor
PdfGuarded(line) == PdfBranch(line) = "paragraph" /\ MarkupFormat(line) # <<>>

\* whether the pass calls a Paragraph constructor at all
PdfConstructs(line) ==
  \E fl \in {PdfFlowables(line, FALSE)} : \E k \in 1..Len(fl) : fl[k].kind = "Paragraph"

(* ------------------------------- inputs -------------------------------- *)
Alphabet == {"#", " ", "|", "-", "*", GRAVE, "1", ".", "a"}

\* every string over Alphabet of at most n characters
Strings(n) == UNION {[1..k -> Alphabet] : k \in 0..n}

HashTails == {<<>>, <<"a">>, <<" ">>, <<" ", "a">>, <<" ", " ", "a">>, <<"a", " ", "a">>,
              <<" ", "*", "a", "*">>}

\* one to MaxHashes hashes followed by a short tail
HashLines == {Repeat("#", n) \o t : n \in 1..MaxHashes, t \in HashTails}

LineTitle == <<"#", " ", "T", "i", "t", "l", "e">>
LineBold == <<"S", "o", "m", "e", " ", "*", "*", "b", "o", "l", "d", "*", "*", " ",
              "t", "e", "x", "t", ".">>
LineBulletBold == <<"-", " ", "*", "*", "a", "*", "*">>
LineStarItem == <<"*", " ", "i", "t", "e", "m">>
LineNumberedCode == <<"1", "2", ".", " ", GRAVE, "a", GRAVE>>
LineTable == <<"|", " ", "a", " ", "|", " ", "b", " ", "|">>
LineTableOpen == <<"|", " ", "a", " ", "|", " ", "b">>
LineLink == <<"[", "t", "]", "(", "u", ")", " ", "*", "i", "*">>

SampleLines == {LineTitle, LineBold, LineBulletBold, LineStarItem, LineNumberedCode,
                LineTable, LineTableOpen, LineLink}

\* the lines the per-line specification runs the two loop bodies on
LineInputs == Strings(MaxLen) \cup HashLines \cup SampleLines

\* the lines the files of the batch are made of
BatchLines == {LineTitle, <<>>, LineBold, Fence}

\* "# Title", a blank line, "Some **bold** text."
TextTitleBold == Join(<<LineTitle, <<>>, LineBold>>, <<NL>>)

\* a paragraph and a heading, each once outside and once inside a fenced block
TextFenced == Join(<<LineBold, LineTitle, Fence, LineBold, LineTitle, Fence>>, <<NL>>)

\* the contents read_markdown_file may return
Texts == {Join(ls, <<NL>>) : ls \in UNION {[1..k -> BatchLines] : k \in 1..MaxLines}}
           \cup {TextTitleBold, TextFenced}

(* ------------------------------- state --------------------------------- *)
NoResults == [i \in 1..NFiles |-> "none"]

\* main before the first pass of its loop
Init ==
  /\ idx = 1
  /\ pc = "exists"
  /\ text = <<>>
  /\ lines = <<>>
  /\ li = 1
  /\ doc = <<>>
  /\ story = <<>>
  /\ docxLog = <<>>
  /\ pdfLog = <<>>
  /\ pdfRetried = <<>>
  /\ readRes = NoResults
  /\ docxRes = NoResults
  /\ pdfRes = NoResults

\* the locals of a pass of the loop of main and of the converters go away
ClearLocals ==
  /\ text' = <<>>
  /\ lines' = <<>>
  /\ li' = 1
  /\ doc' = <<>>
  /\ story' = <<>>
  /\ docxLog' = <<>>
  /\ pdfLog' = <<>>
  /\ pdfRetried' = <<>>

\* the loop of main moves to the next file name, or ends
NextFile ==
  /\ idx' = idx + 1
  /\ pc' = IF idx + 1 > NFiles THEN "done" ELSE "exists"
  /\ ClearLocals

\* a driver that gives up on a file once its DOCX conversion has raised
AfterDocxSkipsPdf(res) == IF res = "raised" THEN "next" ELSE "pdf"

\* where main continues once convert_to_docx has returned or has raised and
\* the handler around the call has run: the PDF conversion of the same file
AfterDocx(res) == "pdf"

\* where main continues once convert_to_pdf has returned or has raised and the
\* handler around the call has run: the next pass of the loop
AfterPdf(res) == "next"

\* entry of a converter: a fresh document or story, and markdown_text split
EnterConverter(t) ==
  /\ lines' = Bind(t, LAMBDA md : SplitOn(md, NL))
  /\ li' = 1
  /\ doc' = <<>>
  /\ story' = <<>>
  /\ docxLog' = <<>>
  /\ pdfLog' = <<>>
  /\ pdfRetried' = <<>>

\* main: os.path.exists(filepath)
MainExists ==
  /\ pc = "exists"
  /\ \E present \in BOOLEAN :
       IF present
       THEN /\ pc' = "read"
            /\ UNCHANGED <<idx, readRes, text, lines, li, doc, story,
                           docxLog, pdfLog, pdfRetried>>
       ELSE /\ readRes' = [readRes EXCEPT ![idx] = "missing"]
            /\ NextFile
  /\ UNCHANGED <<docxRes, pdfRes>>

\* main: read_markdown_file returns the content and convert_to_docx is entered
MainRead ==
  /\ pc = "read"
  /\ \E t \in Texts :
       /\ text' = t
       /\ EnterConverter(t)
  /\ readRes' = [readRes EXCEPT ![idx] = "ok"]
  /\ pc' = "docx"
  /\ UNCHANGED <<idx, docxRes, pdfRes>>

\* main: read_markdown_file raises; the handler reports and continues
MainReadFails ==
  /\ pc = "read"
  /\ readRes' = [readRes EXCEPT ![idx] = "failed"]
  /\ NextFile
  /\ UNCHANGED <<docxRes, pdfRes>>

\* convert_to_docx leaves (returned or raised); main goes on
LeaveDocx(res) ==
  /\ docxRes' = [docxRes EXCEPT ![idx] = res]
  /\ IF AfterDocx(res) = "pdf"
     THEN /\ pc' = "pdf"
          /\ EnterConverter(text)
          /\ UNCHANGED <<idx, text>>
     ELSE NextFile
  /\ UNCHANGED <<readRes, pdfRes>>

\* convert_to_pdf leaves (returned or raised); main goes on
LeavePdf(res) ==
  /\ pdfRes' = [pdfRes EXCEPT ![idx] = res]
  /\ IF AfterPdf(res) = "next"
     THEN NextFile
     ELSE /\ pc' = "done"
          /\ ClearLocals
          /\ UNCHANGED idx
  /\ UNCHANGED <<readRes, docxRes>>

\* whether line number j of the text lies after an odd number of fence markers
InsideFence(j) ==
  Cardinality({k \in 1..(j - 1) : StartsWith(Strip(lines[k]), Fence)}) % 2 = 1

\* a loop that keeps a fence toggle and drops the lines inside a fenced block
DocxPassFenceAware(line) == IF InsideFence(li) THEN <<>> ELSE DocxElems(line)

\* what the pass for the current line appends: the loop keeps no state from
\* one line to the next, so it is the elements of the line's own branch
DocxPass(line) == DocxElems(line)

\* convert_to_docx: one pass of the loop; a constructor of python-docx may raise
DocxLine ==
  /\ pc = "docx"
  /\ li <= Len(lines)
  /\ \E line \in {Strip(lines[li])} :
       \E els \in {DocxPass(line)}, raises \in BOOLEAN :
          IF raises /\ els # <<>>
          THEN /\ LeaveDocx("raised")
          ELSE /\ doc' = doc \o els
               /\ docxLog' = Append(docxLog, els)
               /\ li' = li + 1
               /\ UNCHANGED <<idx, pc, text, lines, story, pdfLog, pdfRetried,
                              readRes, docxRes, pdfRes>>

\* convert_to_docx: doc.save(output_path), which may raise
DocxSave ==
  /\ pc = "docx"
  /\ li > Len(lines)
  /\ \E raises \in BOOLEAN : LeaveDocx(IF raises THEN "raised" ELSE "returned")

\* convert_to_pdf: one pass of the loop. outcome "ok": every constructor
\* succeeds; "retry": the guarded Paragraph raises and the tag-stripped one
\* succeeds; "raise": an unguarded Paragraph raises, or the guarded one and
\* its retry both raise
PdfLine ==
  /\ pc = "pdf"
  /\ li <= Len(lines)
  /\ \E line \in {Strip(lines[li])}, outcome \in {"ok", "retry", "raise"} :
          /\ outcome = "retry" => PdfGuarded(line)
          /\ outcome = "raise" => PdfConstructs(line)
          /\ IF outcome = "raise"
             THEN LeavePdf("raised")
             ELSE /\ \E fl \in {PdfFlowables(line, outcome = "retry")} :
                       /\ story' = story \o fl
                       /\ pdfLog' = Append(pdfLog, fl)
                  /\ pdfRetried' = Append(pdfRetried, outcome = "retry")
                  /\ li' = li + 1
                  /\ UNCHANGED <<idx, pc, text, lines, doc, docxLog, readRes, docxRes, pdfRes>>

\* convert_to_pdf: pdf.build(story); a failure is caught and reported here
PdfBuild ==
  /\ pc = "pdf"
  /\ li > Len(lines)
  /\ \E built \in BOOLEAN :
       LeavePdf(IF built THEN "returned" ELSE "returned_unbuilt")

Next ==
  \/ MainExists
  \/ MainRead
  \/ MainReadFails
  \/ DocxLine
  \/ DocxSave
  \/ PdfLine
  \/ PdfBuild

Spec == Init /\ [][Next]_vars

\* main runs to the end of its loop: no step of it waits on anything
FairSpec == Spec /\ WF_vars(Next)

(* ---------------- the two loop bodies on a single line ----------------- *)
\* one line handed to the body of each loop
LineInit ==
  /\ idx = 1
  /\ pc = "line_docx"
  /\ \E l \in LineInputs : /\ text = l
                           /\ lines = <<l>>
  /\ li = 1
  /\ doc = <<>>
  /\ story = <<>>
  /\ docxLog = <<>>
  /\ pdfLog = <<>>
  /\ pdfRetried = <<>>
  /\ readRes = NoResults
  /\ docxRes = NoResults
  /\ pdfRes = NoResults

\* the body of the loop of convert_to_docx, every constructor succeeding
ApplyDocx ==
  /\ pc = "line_docx"
  /\ \E line \in {Strip(lines[li])} : doc' = doc \o DocxElems(line)
  /\ pc' = "line_pdf"
  /\ UNCHANGED <<idx, text, lines, li, story, docxLog, pdfLog, pdfRetried,
                 readRes, docxRes, pdfRes>>

\* the body of the loop of convert_to_pdf, with or without the retry
ApplyPdf ==
  /\ pc = "line_pdf"
  /\ \E line \in {Strip(lines[li])}, retry \in BOOLEAN :
       /\ retry => PdfGuarded(line)
       /\ story' = story \o PdfFlowables(line, retry)
       /\ pdfRetried' = <<retry>>
  /\ pc' = "line_done"
  /\ UNCHANGED <<idx, text, lines, li, doc, docxLog, pdfLog, readRes, docxRes, pdfRes>>

LineNext ==
  \/ ApplyDocx
  \/ ApplyPdf

LineSpec == LineInit /\ [][LineNext]_vars

(* ====================== properties of the program ====================== *)
Range(f) == {f[k] : k \in DOMAIN f}

\* the line the per-line specification works on, as the loops see it
CurLine == Strip(lines[1])

LoopDone == pc = "line_done"

(* C1: no exception escapes convert_to_docx or convert_to_pdf: whatever the
   text and whatever the outcome of element construction, DOCX save and PDF
   build, each call ends by returning to its caller, never by raising. *)
C1_NoExceptionEscapes ==
  \A i \in 1..NFiles : docxRes[i] # "raised" /\ pdfRes[i] # "raised"

(* C2: failures are isolated per file and per backend. Every file before the
   current one has been handled; for every file that was read, the DOCX and
   the PDF conversion were both attempted, whatever the DOCX outcome; the loop
   ends only past the last file; and the batch does reach its end. *)
FileHandled(i) ==
  /\ readRes[i] # "none"
  /\ readRes[i] = "ok" => (docxRes[i] # "none" /\ pdfRes[i] # "none")

C2_Isolated ==
  /\ \A i \in 1..NFiles : (i < idx \/ pc = "done") => FileHandled(i)
  /\ pc = "done" => idx = NFiles + 1
  /\ (pc = "pdf" \/ (pc = "docx" /\ idx \in 1..NFiles)) => readRes[idx] = "ok"

C2_BatchIsolatedAndCompletes == [](C2_Isolated) /\ <>(pc = "done")

\* file 1 fails in both backends, and file 2 is still read and converted
C2_Witness ==
  /\ pc = "done"
  /\ docxRes[1] = "raised"
  /\ pdfRes[1] = "raised"
  /\ readRes[2] = "ok"
  /\ docxRes[2] = "returned"
  /\ pdfRes[2] = "returned"

(* C3: in convert_to_pdf a failing Paragraph constructor never aborts the
   document: after the pass for any line, the loop is still in the same
   conversion and at the next line (or at the build). *)
C3_FailureNeverAborts ==
  [][(pc = "pdf" /\ li <= Len(lines)) => (pc' = "pdf" /\ idx' = idx /\ li' = li + 1)]_vars

(* C4: end to end on "# Title", blank line, "Some **bold** text.". *)
TitleText == <<"T", "i", "t", "l", "e">>
SomeBoldPlain == <<"S", "o", "m", "e", " ", "b", "o", "l", "d", " ", "t", "e", "x", "t", ".">>
SomeBoldMarkup == <<"S", "o", "m", "e", " ", "<", "b", ">", "b", "o", "l", "d", "<", "/", "b", ">",
                    " ", "t", "e", "x", "t", ".">>

AtDocxEnd == pc = "docx" /\ li > Len(lines)
AtPdfEnd == pc = "pdf" /\ li > Len(lines)

C4_DocxSequence ==
  (AtDocxEnd /\ text = TextTitleBold) =>
     doc = <<AddHeading(TitleText, 1), AddParagraph(SomeBoldPlain, "Normal")>>

\* C4 as stated: heading-1 flowable, one spacer, one paragraph flowable
C4_AsStated ==
  /\ C4_DocxSequence
  /\ (AtPdfEnd /\ text = TextTitleBold /\ pdfRetried = <<FALSE, FALSE, FALSE>>) =>
        /\ Len(story) = 3
        /\ story[1] = Paragraph(TitleText, "chinese_heading1")
        /\ story[2].kind = "Spacer"
        /\ story[3] = Paragraph(SomeBoldMarkup, "chinese_style")

(* C4 amended: the DOCX elements are [heading 1 "Title", paragraph "Some bold
   text."]; the PDF flowables are the heading-1 paragraph, its trailing spacer
   (0.3 inch), the spacer of the blank line (0.2 inch) and the paragraph "Some
   <b>bold</b> text." (tag-stripped when the first constructor raised). *)
C4_EndToEnd ==
  /\ C4_DocxSequence
  /\ (AtPdfEnd /\ text = TextTitleBold) =>
        story = <<Paragraph(TitleText, "chinese_heading1"), Spacer(3), Spacer(2),
                  Paragraph(IF pdfRetried[3] THEN SomeBoldPlain ELSE SomeBoldMarkup,
                            "chinese_style")>>

C4_Witness ==
  /\ AtPdfEnd
  /\ text = TextTitleBold
  /\ docxRes[idx] = "returned"
  /\ pdfRetried = <<FALSE, FALSE, FALSE>>
  /\ Len(story) = 4

(* C5: list items of convert_to_docx. *)
IsBulletLine(line) == Len(line) >= 2 /\ line[1] \in {"-", "*"} /\ line[2] = " "

IsNumberedLine(line) ==
  \E n \in 1..(Len(line) - 1) : /\ \A k \in 1..n : IsDigit(line[k])
                                /\ line[n + 1] = "."

\* p is the line without its digits, its period and the blanks after them
IsNumberedPayload(line, p) ==
  LET n == DigitRun(line)
  IN /\ p = <<>> \/ ~IsSpace(p[1])
     /\ \E k \in 0..Len(line) : line = SubSeq(line, 1, n + 1) \o Repeat(" ", k) \o p

\* C5 as stated: the item text is the payload after PlainTarget formatting
C5_AsStated ==
  LoopDone =>
    /\ IsBulletLine(CurLine) =>
         doc = <<AddParagraph(PlainFormat(Drop(CurLine, 2)), "List Bullet")>>
    /\ IsNumberedLine(CurLine) =>
         /\ Len(doc) = 1
         /\ doc[1].style = "List Number"
         /\ doc[1].text = PlainFormat(NumberedText(CurLine))

(* C5 amended: every bullet line and every numbered line appends exactly one
   list item, bulleted or numbered, whose text is the item payload verbatim:
   bold, italic, code-span and link markers are kept ("- **a**" gives the
   bulleted item "**a**"). *)
C5_ListItemsVerbatim ==
  LoopDone =>
    /\ IsBulletLine(CurLine) =>
         doc = <<AddParagraph(SubSeq(CurLine, 3, Len(CurLine)), "List Bullet")>>
    /\ IsNumberedLine(CurLine) =>
         /\ Len(doc) = 1
         /\ doc[1].kind = "paragraph"
         /\ doc[1].style = "List Number"
         /\ IsNumberedPayload(CurLine, doc[1].text)

C5_Witness ==
  /\ LoopDone
  /\ lines[1] = LineBulletBold
  /\ doc = <<AddParagraph(<<"*", "*", "a", "*", "*">>, "List Bullet")>>

(* C6: list items of convert_to_pdf. *)
\* C6 as stated: a bullet line gives glyph + MarkupTarget-formatted payload
C6_AsStated ==
  LoopDone =>
    /\ IsBulletLine(CurLine) =>
         story = <<Paragraph(<<BULLET, " ">> \o MarkupFormat(Drop(CurLine, 2)),
                             "chinese_style")>>
    /\ IsNumberedLine(CurLine) => story = <<Paragraph(CurLine, "chinese_style")>>

(* C6 amended: every bullet line appends exactly one paragraph whose text is
   the bullet glyph, a space and the item payload verbatim, with no inline
   formatting applied; a numbered line appends one paragraph of the raw line,
   with no inline formatting applied either. *)
C6_PdfListItemsVerbatim ==
  LoopDone =>
    /\ IsBulletLine(CurLine) =>
         story = <<Paragraph(<<BULLET, " ">> \o SubSeq(CurLine, 3, Len(CurLine)),
                             "chinese_style")>>
    /\ IsNumberedLine(CurLine) => story = <<Paragraph(CurLine, "chinese_style")>>

C6_Witness ==
  /\ LoopDone
  /\ lines[1] = LineBulletBold
  /\ story = <<Paragraph(<<BULLET, " ", "*", "*", "a", "*", "*">>, "chinese_style")>>

(* C7: table lines. For every line that starts with a bar, convert_to_docx
   appends exactly one paragraph whose text is the cells joined by " | ", the
   cells being the pieces between bars with only the empty first and last
   piece discarded, each trimmed, so that no non-empty cell is lost; and
   convert_to_pdf appends nothing. *)
\* the pieces of the split with an empty first and an empty last piece dropped
CellsAsStated(line) ==
  LET parts == SplitOn(line, "|")
      first == IF parts[1] = <<>> THEN 2 ELSE 1
      last == IF parts[Len(parts)] = <<>> THEN Len(parts) - 1 ELSE Len(parts)
      inner == SubSeq(parts, first, last)
  IN [k \in 1..Len(inner) |-> Strip(inner[k])]

C7_TableRowAsStated ==
  (LoopDone /\ StartsWith(CurLine, <<"|">>)) =>
     /\ doc = <<AddParagraph(Join(CellsAsStated(CurLine), <<" ", "|", " ">>), "Normal")>>
     /\ story = <<>>

(* C8: headings. A line is a heading in either renderer exactly when it
   starts with one to four hashes followed by a space; the DOCX heading level
   is the number of hashes, the PDF style is the one of that number of hashes
   (heading 1, heading 2, bold paragraph for 3 and 4), and the heading text is
   the line without the hashes and the one space after them. *)
RECURSIVE HashRun(_)
HashRun(s) == IF s # <<>> /\ Head(s) = "#" THEN 1 + HashRun(Tail(s)) ELSE 0

IsHeadingLine(line) ==
  LET n == HashRun(line)
  IN n \in 1..4 /\ Len(line) > n /\ line[n + 1] = " "

HeadingPayload(line) == SubSeq(line, HashRun(line) + 2, Len(line))

PdfHeadingStyles == {"chinese_heading1", "chinese_heading2"}

C8_HeadingLevelAndText ==
  LoopDone =>
    LET n == HashRun(CurLine)
        t == HeadingPayload(CurLine)
    IN IF IsHeadingLine(CurLine)
       THEN /\ doc = <<AddHeading(t, n)>>
            /\ Len(story) = 2
            /\ story[1] = Paragraph(IF n <= 2 THEN t ELSE BOpen \o t \o BClose,
                                    IF n = 1 THEN "chinese_heading1"
                                    ELSE IF n = 2 THEN "chinese_heading2"
                                    ELSE "chinese_style")
            /\ story[2].kind = "Spacer"
            /\ PdfBranch(CurLine) \in {"h1", "h2", "h34"}
       ELSE /\ \A e \in Range(doc) : e.kind # "heading"
            /\ \A f \in Range(story) : f.style \notin PdfHeadingStyles
            /\ PdfBranch(CurLine) \notin {"h1", "h2", "h34"}

C8_Witness ==
  /\ LoopDone
  /\ lines[1] = <<"#", "#", "#", "#", " ", "a">>
  /\ doc = <<AddHeading(<<"a">>, 4)>>
  /\ story[1].text = <<"<", "b", ">", "a", "<", "/", "b", ">">>

(* C9: one classification policy. For every stripped line the branch taken
   by the chain of convert_to_docx and the branch taken by the chain of
   convert_to_pdf denote the same block kind, and it is the kind of the
   first-match-wins order heading, table row, bullet, numbered, fence marker,
   rule, blank, paragraph. *)
KindInOrder(line) ==
  IF \E h \in 1..4 : StartsWith(line, Repeat("#", 5 - h) \o <<" ">>) THEN "Heading"
  ELSE IF StartsWith(line, <<"|">>) THEN "TableRowFragment"
  ELSE IF StartsWith(line, <<"-", " ">>) \/ StartsWith(line, <<"*", " ">>) THEN "BulletItem"
  ELSE IF IsNumberedLine(line) THEN "NumberedItem"
  ELSE IF StartsWith(line, <<GRAVE, GRAVE, GRAVE>>) THEN "FenceMarker"
  ELSE IF StartsWith(line, <<"-", "-", "-">>) \/ StartsWith(line, <<"*", "*", "*">>) THEN "Rule"
  ELSE IF line = <<>> THEN "Blank"
  ELSE "Paragraph"

KindOfDocxBranch(br) ==
  CASE br \in {"h1", "h2", "h3", "h4"} -> "Heading"
    [] br = "table" -> "TableRowFragment"
    [] br = "bullet" -> "BulletItem"
    [] br = "numbered" -> "NumberedItem"
    [] br = "fence" -> "FenceMarker"
    [] br = "rule" -> "Rule"
    [] br = "blank" -> "Blank"
    [] br = "paragraph" -> "Paragraph"

KindOfPdfBranch(br) ==
  CASE br \in {"h1", "h2", "h34"} -> "Heading"
    [] br \in {"table_sep", "table"} -> "TableRowFragment"
    [] br = "bullet" -> "BulletItem"
    [] br = "numbered" -> "NumberedItem"
    [] br = "fence" -> "FenceMarker"
    [] br = "rule" -> "Rule"
    [] br = "blank" -> "Blank"
    [] br = "paragraph" -> "Paragraph"

C9_SameClassification ==
  /\ KindOfDocxBranch(DocxBranch(CurLine)) = KindInOrder(CurLine)
  /\ KindOfPdfBranch(PdfBranch(CurLine)) = KindInOrder(CurLine)

\* a table line that holds a dash: the two chains meet it at different places
C9_Witness ==
  /\ LoopDone
  /\ CurLine = <<"|", "-", "-", "-">>
  /\ DocxBranch(CurLine) = "table"
  /\ PdfBranch(CurLine) = "table_sep"
  /\ Len(doc) = 1
  /\ story = <<>>

(* C10: no fence state. A fence-marker line appends nothing, in either
   renderer; two passes over the same line append the same elements whether or
   not either lies inside a fenced block; a paragraph or heading line inside
   a fenced block is rendered like any other. *)
IsFenceMarker(j) == StartsWith(Strip(lines[j]), Fence)

NoFenceState(log, same(_, _)) ==
  \A j \in 1..Len(log) :
    /\ IsFenceMarker(j) => log[j] = <<>>
    /\ (InsideFence(j) /\ Strip(lines[j]) \in {LineTitle, LineBold}) => log[j] # <<>>
    /\ \A k \in 1..Len(log) :
         (Strip(lines[j]) = Strip(lines[k]) /\ same(j, k)) => log[j] = log[k]

C10_NoFenceState ==
  /\ pc = "docx" => NoFenceState(docxLog, LAMBDA j, k : TRUE)
  /\ pc = "pdf" => NoFenceState(pdfLog, LAMBDA j, k : pdfRetried[j] = pdfRetried[k])

\* both converters have passed a fenced block holding a paragraph and a heading
C10_Witness ==
  /\ AtPdfEnd
  /\ text = TextFenced
  /\ docxRes[idx] = "returned"
  /\ InsideFence(4) /\ ~InsideFence(1)
  /\ pdfLog[4] = pdfLog[1]
  /\ pdfLog[5] # <<>>
  /\ pdfLog[3] = <<>>

====
